---- MODULE Spec2Model ----
(***************************************************************************)
(* A model of kplcloud/request (src/request.go): the fluent Request        *)
(* builder, the retry loop of Request.request driven by Do(), and the      *)
(* classification of a response into a Result, Stream(), and Result.Into.  *)
(*                                                                         *)
(* Strings are sequences of one-character strings, so that the string      *)
(* functions the code calls (strings.ToUpper, strconv.Atoi, path.Join,     *)
(* strings.TrimSpace, mime.ParseMediaType) are computed, not assumed.      *)
(***************************************************************************)
EXTENDS Integers, Sequences, FiniteSets, TLC

VARIABLES
    \* ---- fields of Request (src/request.go:30-49)
    client,       \* r.client
    verb,         \* r.verb
    baseURL,      \* r.baseURL, as the record [Scheme, Host, Path]
    pathPrefix,   \* r.pathPrefix
    subpath,      \* r.subpath
    params,       \* r.params
    headers,      \* r.headers
    timeout,      \* r.timeout
    err,          \* r.err
    body,         \* r.body
    ctx,          \* r.ctx
    \* ---- the execution of Do() / request()
    pc,           \* position: "config", "send", "evaluate", "drain", "done"
    retries,      \* the local retries of request()
    resp,         \* the response of the current iteration
    respOpen,     \* whether resp.Body is still open
    isDone,       \* the value the closure `done` is about to return
    result,       \* the local result of Do(), assigned by the callback
    reqErr,       \* the error request() returned
    stream,       \* the stream Stream() returned: "nil" or "body"
    streamErr,    \* the error Stream() returned
    \* ---- Result.Into on the Result of Do()
    intoErr,      \* the error Into returned
    target,       \* the caller's target: "untouched", "partial" or "decoded"
    decodeCalls,  \* number of calls of r.decoder.Decode
    \* ---- history (not program state)
    calls,        \* the configuration calls made so far
    sends,        \* number of client.Do calls
    callbacks,    \* number of invocations of the completion callback fn
    lastErr,      \* what the latest client.Do call returned as its error
    allWait,      \* every response evaluated so far was a wait candidate
    seekFailed,   \* a Seek of the body has returned an error
    firstFailure, \* the error of the first configuration call that failed
    firstSent,    \* the body bytes the first request of Do() carried
    lastSent,     \* the body bytes the latest request of Do() carried
    drained       \* bytes the deferred function discarded from the body of resp

reqVars  == <<client, verb, baseURL, pathPrefix, subpath, params, headers,
              timeout, err, body, ctx>>
execVars == <<pc, retries, resp, respOpen, isDone, result, reqErr, stream, streamErr>>
intoVars == <<intoErr, target, decodeCalls>>
histVars == <<calls, sends, callbacks, lastErr, allWait, seekFailed, firstFailure,
              firstSent, lastSent, drained>>
vars     == <<reqVars, execVars, intoVars, histVars>>

(***************************************************************************)
(* Bounds of the model.                                                    *)
(***************************************************************************)
\* number of configuration calls recorded in one chain
MaxCalls == 2
\* how far the length of a response body strays from the 2048-byte cap
MaxPad == 1

(***************************************************************************)
(* Characters and strings.                                                 *)
(***************************************************************************)
Min(S) == CHOOSE x \in S : \A y \in S : x <= y
Max(S) == 0 - Min({0 - x : x \in S})

Rep(c, n) == [i \in 1..n |-> c]

Lowers == <<"a","b","c","d","e","f","g","h","i","j","k","l","m",
            "n","o","p","q","r","s","t","u","v","w","x","y","z">>
Uppers == <<"A","B","C","D","E","F","G","H","I","J","K","L","M",
            "N","O","P","Q","R","S","T","U","V","W","X","Y","Z">>
Digits == <<"0","1","2","3","4","5","6","7","8","9">>

IndexOf(c, s) == IF \E i \in 1..Len(s) : s[i] = c
                 THEN Min({i \in 1..Len(s) : s[i] = c}) ELSE 0

UpperChar(c) == IF IndexOf(c, Lowers) > 0 THEN Uppers[IndexOf(c, Lowers)] ELSE c
LowerChar(c) == IF IndexOf(c, Uppers) > 0 THEN Lowers[IndexOf(c, Uppers)] ELSE c

\* strings.ToUpper
ToUpper(s) == [i \in 1..Len(s) |-> UpperChar(s[i])]
ToLower(s) == [i \in 1..Len(s) |-> LowerChar(s[i])]

\* unicode.IsSpace, for the characters of the model
IsSpace(c) == c \in {" ", "\t", "\n", "\r"}

\* strings.TrimSpace
TrimSpace(s) ==
    LET keep == {i \in 1..Len(s) : ~IsSpace(s[i])}
    IN  IF keep = {} THEN <<>> ELSE SubSeq(s, Min(keep), Max(keep))

\* strconv.Atoi's verdict: an optional sign followed by one or more decimal
\* digits (lengths in the model stay far below the overflow of int).
IsDigit(c) == IndexOf(c, Digits) > 0
AtoiOk(s) ==
    LET d == IF Len(s) > 0 /\ s[1] \in {"+", "-"} THEN Tail(s) ELSE s
    IN  Len(d) > 0 /\ \A i \in 1..Len(d) : IsDigit(d[i])

RECURSIVE DigitsValue(_)
DigitsValue(d) ==
    IF d = <<>> THEN 0
    ELSE 10 * DigitsValue(SubSeq(d, 1, Len(d) - 1)) + (IndexOf(d[Len(d)], Digits) - 1)

\* strconv.Atoi's value, where AtoiOk
AtoiValue(s) ==
    IF s[1] = "-" THEN 0 - DigitsValue(Tail(s))
    ELSE IF s[1] = "+" THEN DigitsValue(Tail(s))
    ELSE DigitsValue(s)

RECURSIVE Split(_, _)
\* strings.Split(s, sep) for a one-character separator
Split(s, sep) ==
    LET i == IndexOf(sep, s)
    IN  IF i = 0 THEN <<s>>
        ELSE <<SubSeq(s, 1, i - 1)>> \o Split(SubSeq(s, i + 1, Len(s)), sep)

HasPrefix(s, p) == Len(s) >= Len(p) /\ SubSeq(s, 1, Len(p)) = p
HasSuffix(s, p) == Len(s) >= Len(p) /\ SubSeq(s, Len(s) - Len(p) + 1, Len(s)) = p

(***************************************************************************)
(* Errors.  One record shape for every error value of the program:         *)
(*   kind "nil"        no error                                            *)
(*   kind "config"     a configuration error; leaf names it                *)
(*   kind "newrequest" http.NewRequest refused the verb                    *)
(*   kind "transport"  client.Do failed; wrap lists the wrappers from the  *)
(*                     outside in ("url" *url.Error, "op" *net.OpError,    *)
(*                     "sys" *os.SyscallError), leaf is the innermost error*)
(*   kind "stream" / "unexpected"  reading the response body failed        *)
(*   kind "status"     a *StatusError; fmt, text, code give its Message    *)
(***************************************************************************)
NoErr == [kind |-> "nil", wrap |-> <<>>, leaf |-> "", fmt |-> "",
          text |-> <<>>, code |-> 0]

ConfigErr(what)       == [NoErr EXCEPT !.kind = "config", !.leaf = what]
NewRequestErr         == [NoErr EXCEPT !.kind = "newrequest", !.leaf = "invalid method"]
TransportErr(w, leaf) == [NoErr EXCEPT !.kind = "transport", !.wrap = w, !.leaf = leaf]
\* src/request.go:434 and :439; the read error is quoted in the message
StreamErr(leaf)       == [NoErr EXCEPT !.kind = "stream", !.leaf = leaf]
UnexpectedErr(leaf)   == [NoErr EXCEPT !.kind = "unexpected", !.leaf = leaf]

\* &StatusError{Message: message}
StatusError(fmt, text, code) ==
    [NoErr EXCEPT !.kind = "status", !.fmt = fmt, !.text = text, !.code = code]

Unknown == <<"u","n","k","n","o","w","n">>

\* IsConnectionReset (src/request.go:538-552): strip one *url.Error, then one
\* *net.OpError, then one *os.SyscallError, in this order; what is left must
\* be the errno ECONNRESET itself.
IsConnectionReset(e) ==
    LET w1 == IF e.wrap # <<>> /\ Head(e.wrap) = "url" THEN Tail(e.wrap) ELSE e.wrap
        w2 == IF w1 # <<>> /\ Head(w1) = "op" THEN Tail(w1) ELSE w1
        w3 == IF w2 # <<>> /\ Head(w2) = "sys" THEN Tail(w2) ELSE w2
    IN  w3 = <<>> /\ e.leaf = "ECONNRESET"

(***************************************************************************)
(* Responses.  Header holds the two headers the code reads, each as the    *)
(* list of its values (empty when the header is absent); readErr is the    *)
(* error ioutil.ReadAll meets on Body ("nil", "stream" for an              *)
(* http2.StreamError, "other").                                            *)
(***************************************************************************)
Response(status, ra, ct, text, readErr) ==
    [StatusCode |-> status,
     Header     |-> [RetryAfter |-> ra, ContentType |-> ct],
     Body       |-> text,
     readErr    |-> readErr]

\* http.Header.Get: the first value, "" when there is none
Get(values) == IF values = <<>> THEN <<>> ELSE values[1]

\* the placeholder of src/request.go:386-390
SynthesizedResponse == Response(500, << <<"1">> >>, <<>>, <<>>, "nil")

NoResponse == Response(0, <<>>, <<>>, <<>>, "nil")

\* retryAfterSeconds (src/request.go:565-572): <<seconds, ok>>
retryAfterSeconds(r) ==
    LET h == Get(r.Header.RetryAfter)
    IN  IF Len(h) > 0 /\ AtoiOk(h) THEN <<AtoiValue(h), TRUE>> ELSE <<0, FALSE>>

\* a checkWait that forgets the status test
checkWaitAnyStatus(r) == retryAfterSeconds(r)

\* checkWait (src/request.go:554-563): <<seconds, wait>>
checkWait(r) ==
    IF r.StatusCode = 429 \/ r.StatusCode >= 500
    THEN retryAfterSeconds(r)
    ELSE <<0, FALSE>>

(***************************************************************************)
(* mime.ParseMediaType, as far as isTextResponse depends on it: the media  *)
(* type is the lower-cased, trimmed text before the first ";" and must be  *)
(* token or token/token; every parameter after it must be token=token,     *)
(* a single trailing ";" being ignored.  <<media, ok>>.                    *)
(***************************************************************************)
IsTokenChar(c) ==
    \/ IndexOf(c, Lowers) > 0 \/ IndexOf(c, Uppers) > 0 \/ IsDigit(c)
    \/ c \in {"-", ".", "+", "_"}

IsToken(s) == Len(s) > 0 /\ \A i \in 1..Len(s) : IsTokenChar(s[i])

MediaTypeOk(m) ==
    LET parts == Split(m, "/")
    IN  \/ Len(parts) = 1 /\ IsToken(parts[1])
        \/ Len(parts) = 2 /\ IsToken(parts[1]) /\ IsToken(parts[2])

MediaParamOk(p) ==
    LET kv == Split(TrimSpace(p), "=")
    IN  Len(kv) = 2 /\ IsToken(kv[1]) /\ IsToken(kv[2])

ParseMediaType(v) ==
    LET pieces == Split(v, ";")
        media  == TrimSpace(ToLower(pieces[1]))
        n      == Len(pieces)
        paramsOk ==
            \A i \in 2..n :
                \/ MediaParamOk(pieces[i])
                \/ i = n /\ TrimSpace(pieces[i]) = <<>> /\ i > 1
    IN  IF ~MediaTypeOk(media) THEN << <<>>, FALSE >>
        ELSE IF ~paramsOk THEN << media, FALSE >>
        ELSE << media, TRUE >>

TextSlash == <<"t","e","x","t","/">>

\* isTextResponse (src/request.go:486-496)
isTextResponse(r) ==
    LET contentType == Get(r.Header.ContentType)
        parsed      == ParseMediaType(contentType)
    IN  IF Len(contentType) = 0 THEN TRUE
        ELSE IF ~parsed[2] THEN FALSE
        ELSE HasPrefix(parsed[1], TextSlash)

(***************************************************************************)
(* Classification of a response into a Result.                             *)
(***************************************************************************)
\* src/request.go:475
maxUnstructuredResponseTextBytes == 2048

\* NewGenericServerResponse (src/request.go:574-609).  The Message is kept as
\* <fmt, text, code>: "text" is serverMessage itself, "server5xx" and
\* "generic" are the two Sprintf templates over the code, the others are the
\* fixed sentences.
NewGenericServerResponse(code, serverMessage) ==
    CASE code = 409 -> StatusError("conflict", <<>>, 0)
      [] code = 404 -> StatusError("notfound", <<>>, 0)
      [] code = 400 -> StatusError("badrequest", <<>>, 0)
      [] code = 401 -> StatusError("unauthorized", <<>>, 0)
      [] code = 403 -> StatusError("text", serverMessage, 0)
      [] code = 406 -> StatusError("text", serverMessage, 0)
      [] code = 415 -> StatusError("text", serverMessage, 0)
      [] code = 405 -> StatusError("methodnotallowed", <<>>, 0)
      [] code = 422 -> StatusError("unprocessable", <<>>, 0)
      [] code = 503 -> StatusError("unavailable", <<>>, 0)
      [] code = 504 -> StatusError("gatewaytimeout", <<>>, 0)
      [] code = 429 -> StatusError("toomanyrequests", <<>>, 0)
      [] OTHER      -> IF code >= 500
                       THEN StatusError("server5xx", <<>>, code)
                       ELSE StatusError("generic", <<>>, code)

\* a newUnstructuredResponseError that trims before it truncates
newUnstructuredResponseErrorTrimFirst(text, isText, statusCode) ==
    LET trimmed == TrimSpace(text)
        capped  == IF Len(trimmed) > maxUnstructuredResponseTextBytes
                   THEN SubSeq(trimmed, 1, maxUnstructuredResponseTextBytes)
                   ELSE trimmed
    IN  NewGenericServerResponse(statusCode, IF isText THEN capped ELSE Unknown)

\* newUnstructuredResponseError (src/request.go:497-508); method and
\* retryAfter are not used by the code
newUnstructuredResponseError(text, isText, statusCode) ==
    LET capped  == IF Len(text) > maxUnstructuredResponseTextBytes
                   THEN SubSeq(text, 1, maxUnstructuredResponseTextBytes)
                   ELSE text
        message == IF isText THEN TrimSpace(capped) ELSE Unknown
    IN  NewGenericServerResponse(statusCode, message)

\* transformUnstructuredResponseError (src/request.go:477-485).  In Do() the
\* body was already read to its end by transformResponse, so a second read
\* (lines 478-482, taken only when `body` is nil) yields no more bytes.
transformUnstructuredResponseError(r, text) ==
    newUnstructuredResponseError(text, isTextResponse(r), r.StatusCode)

NoHeader == [RetryAfter |-> <<>>, ContentType |-> <<>>]

\* Result{err: e}: every other field is its zero value.  A Result is kept
\* without its cookies (resp.Cookies()), which nothing in the package reads;
\* decoder records whether NewDecode() was stored.
ResultErr(e) ==
    [body |-> <<>>, contentType |-> <<>>, err |-> e, statusCode |-> 0,
     headers |-> NoHeader, decoder |-> FALSE]

NoResult == ResultErr(NoErr)

\* a transformResponse that leaves the error of a failure Result unset
transformResponseNoErr(r) ==
    IF r.readErr = "stream" THEN ResultErr(StreamErr(r.readErr))
    ELSE IF r.readErr # "nil" THEN ResultErr(UnexpectedErr(r.readErr))
    ELSE [body        |-> r.Body,
          contentType |-> Get(r.Header.ContentType),
          err         |-> NoErr,
          statusCode  |-> r.StatusCode,
          headers     |-> r.Header,
          decoder     |-> TRUE]

\* transformResponse (src/request.go:425-473): the body is read to its end;
\* a read error gives Result{err}; otherwise 101 and 200..206
\* (http.StatusOK..http.StatusPartialContent) give a Result without error
\* and every other status one with the unstructured response error.
transformResponse(r) ==
    IF r.readErr = "stream" THEN ResultErr(StreamErr(r.readErr))
    ELSE IF r.readErr # "nil" THEN ResultErr(UnexpectedErr(r.readErr))
    ELSE [body        |-> r.Body,
          contentType |-> Get(r.Header.ContentType),
          err         |-> IF r.StatusCode # 101 /\ (r.StatusCode < 200 \/ r.StatusCode > 206)
                          THEN transformUnstructuredResponseError(r, r.Body)
                          ELSE NoErr,
          statusCode  |-> r.StatusCode,
          headers     |-> r.Header,
          decoder     |-> TRUE]

(***************************************************************************)
(* Paths and URLs.                                                         *)
(***************************************************************************)
RECURSIVE JoinWith(_, _)
\* strings.Join(parts, sep)
JoinWith(parts, sep) ==
    IF parts = <<>> THEN <<>>
    ELSE IF Len(parts) = 1 THEN parts[1]
    ELSE parts[1] \o sep \o JoinWith(Tail(parts), sep)

Dot    == <<".">>
DotDot == <<".", ".">>
Slash  == <<"/">>

RECURSIVE CleanParts(_, _, _)
\* the component walk of path.Clean: "" and "." are dropped, ".." removes the
\* component before it, is dropped at the root, and is kept at the start of
\* a relative path
CleanParts(parts, out, rooted) ==
    IF parts = <<>> THEN out
    ELSE LET c == Head(parts)
         IN  IF c = <<>> \/ c = Dot THEN CleanParts(Tail(parts), out, rooted)
             ELSE IF c = DotDot
                  THEN IF out # <<>> /\ out[Len(out)] # DotDot
                       THEN CleanParts(Tail(parts), SubSeq(out, 1, Len(out) - 1), rooted)
                       ELSE IF rooted THEN CleanParts(Tail(parts), out, rooted)
                       ELSE CleanParts(Tail(parts), Append(out, c), rooted)
             ELSE CleanParts(Tail(parts), Append(out, c), rooted)

\* path.Clean
Clean(p) ==
    LET rooted == Len(p) > 0 /\ p[1] = "/"
        kept   == JoinWith(CleanParts(Split(p, "/"), <<>>, rooted), Slash)
    IN  IF p = <<>> THEN Dot
        ELSE IF rooted THEN Slash \o kept
        ELSE IF kept = <<>> THEN Dot
        ELSE kept

\* path.Join: "" when every element is empty, else the non-empty elements
\* joined by "/" and cleaned
Join(elems) ==
    LET nonEmpty == SelectSeq(elems, LAMBDA e : e # <<>>)
    IN  IF nonEmpty = <<>> THEN <<>> ELSE Clean(JoinWith(nonEmpty, Slash))

IsSchemeChar(c, i) ==
    \/ IndexOf(c, Lowers) > 0 \/ IndexOf(c, Uppers) > 0
    \/ i > 1 /\ (IsDigit(c) \/ c \in {"+", "-", "."})

\* url.Parse, for the addresses of the model: [ok, Scheme, Host, Path,
\* RawQuery].  The scheme is the text before the first ":" when it is made of
\* scheme characters; "//" opens the host, which ends at the next "/".  The
\* parse fails on a leading ":" (missing protocol scheme), on a space in the
\* host, and on a ":" in the first segment of a scheme-less path.
ParseURL(s) ==
    LET q       == IndexOf("?", s)
        main    == IF q > 0 THEN SubSeq(s, 1, q - 1) ELSE s
        rawq    == IF q > 0 THEN SubSeq(s, q + 1, Len(s)) ELSE <<>>
        c       == IndexOf(":", main)
        sl      == IndexOf("/", main)
        scheme  == c > 1 /\ \A i \in 1..(c - 1) : IsSchemeChar(main[i], i)
        after   == IF scheme THEN SubSeq(main, c + 1, Len(main)) ELSE main
        auth    == HasPrefix(after, <<"/", "/">>)
        rest    == IF auth THEN SubSeq(after, 3, Len(after)) ELSE after
        cut     == IndexOf("/", rest)
        host    == IF ~auth THEN <<>>
                   ELSE IF cut > 0 THEN SubSeq(rest, 1, cut - 1) ELSE rest
        path    == IF auth THEN (IF cut > 0 THEN SubSeq(rest, cut, Len(rest)) ELSE <<>>)
                   ELSE IF scheme /\ ~HasPrefix(rest, Slash) THEN <<>>
                   ELSE rest
        bad     == \/ c = 1
                   \/ IndexOf(" ", host) > 0
                   \/ ~scheme /\ c > 0 /\ (sl = 0 \/ c < sl)
    IN  [ok |-> ~bad,
         Scheme |-> IF scheme THEN ToLower(SubSeq(main, 1, c - 1)) ELSE <<>>,
         Host |-> host, Path |-> path, RawQuery |-> rawq]

NilURL == [ok |-> FALSE, Scheme |-> <<>>, Host |-> <<>>, Path |-> <<>>, RawQuery |-> <<>>]

\* strings.Index(s, sub) != -1
Contains(s, sub) ==
    \E i \in 1..(Len(s) - Len(sub) + 1) : SubSeq(s, i, i + Len(sub) - 1) = sub

\* url.ParseQuery over "k=v&k=v": the url.Values of a raw query (no escapes
\* occur in the model's queries)
RECURSIVE AddPairs(_, _)
AddPairs(pairs, m) ==
    IF pairs = <<>> THEN m
    ELSE LET kv == Split(Head(pairs), "=")
             k  == kv[1]
             v  == IF Len(kv) > 1 THEN kv[2] ELSE <<>>
             m2 == [x \in DOMAIN m \cup {k} |->
                      IF x = k THEN (IF k \in DOMAIN m THEN Append(m[k], v) ELSE <<v>>)
                      ELSE m[x]]
         IN  IF Head(pairs) = <<>> THEN AddPairs(Tail(pairs), m)
             ELSE AddPairs(Tail(pairs), m2)

EmptyValues == [k \in {} |-> <<>>]

ParseQuery(raw) == AddPairs(Split(raw, "&"), EmptyValues)

(***************************************************************************)
(* The strings of the model.                                               *)
(***************************************************************************)
sGET     == <<"G","E","T">>
sHttp    == <<"h","t","t","p",":","/","/">>
sHttps   == <<"h","t","t","p","s",":","/","/">>
sHttpsLit == <<"h","t","t","p","s">>
sApi     == <<"/","a","p","i">>
sV1      == <<"/","v","1">>
sItems   == <<"i","t","e","m","s">>
sFooSl   == <<"f","o","o","/">>
sTimeout == <<"t","i","m","e","o","u","t">>

\* base addresses: a full URL with the path "/", one with a longer path, a
\* bare host (as in src/request_test.go:55), and one that does not parse
\* even with a scheme in front (a space in the host)
BaseInputs ==
    { sHttps \o <<"h","/">>,
      sHttp \o <<"h","/","b","a","s","e">>,
      <<"h",".","c","o","m">>,
      <<"a"," ","b">> }

\* verbs as the caller writes them; the last is no HTTP token
VerbInputs ==
    { <<"g","e","t">>, sGET, <<"P","O","S","T">>, <<"p","o","s","t">>, <<>>,
      <<"g"," ","t">> }

\* the bytes of every body of the model
BodyData == <<"h">>

NilBody == [kind |-> "nil", data |-> <<>>, pos |-> 0]

\* what the caller passes to Body(): a file path (readable or not), a byte
\* slice, an io.Reader that is an io.Seeker, one that is not (each at a read
\* position), or a value of another type
BodyInputs ==
    { [type |-> "string", ok |-> TRUE,  pos |-> 0],
      [type |-> "string", ok |-> FALSE, pos |-> 0],
      [type |-> "bytes",  ok |-> TRUE,  pos |-> 0],
      [type |-> "other",  ok |-> TRUE,  pos |-> 0] }
    \cup { [type |-> t, ok |-> TRUE, pos |-> p] :
              t \in {"seeker", "stream"}, p \in {0, Len(BodyData)} }

\* "/p?a=9" and ":x" (url.Parse: missing protocol scheme)
sUriOk  == <<"/","p","?","a","=","9">>
sUriBad == <<":","x">>

\* what the caller passes to RequestURI()
RequestURIInputs == { sUriOk, sUriBad }

\* "/p?timeout=5&a=7": a request URI that carries a timeout parameter
sUriTimeout == <<"/","p","?","t","i","m","e","o","u","t","=","5","&","a","=","7">>

(***************************************************************************)
(* Construction and configuration (src/request.go:123-277).                *)
(***************************************************************************)
NilHeaders == [isNil |-> TRUE, map |-> EmptyValues]

\* NewRequest (src/request.go:123-162)
NewRequest(baseUrl, v) ==
    LET isHttps == Contains(baseUrl, sHttpsLit)
        first   == ParseURL(baseUrl)
        scheme  == IF isHttps THEN sHttps ELSE sHttp
        second  == ParseURL(scheme \o baseUrl)
        hostURL == IF ~first.ok \/ first.Scheme = <<>> \/ first.Host = <<>>
                   THEN (IF second.ok THEN second ELSE NilURL)
                   ELSE first
    IN  /\ headers = NilHeaders
        /\ baseURL = hostURL
        /\ client = "constructed"
        /\ verb = ToUpper(v)
        /\ pathPrefix = IF hostURL.ok THEN Join(<<Slash, hostURL.Path>>) ELSE Slash
        /\ subpath = <<>>
        /\ params = EmptyValues
        /\ timeout = 0
        /\ err = NoErr
        /\ body = NilBody
        /\ ctx = "nil"

\* HttpClient (src/request.go:164-167)
HttpClient(c) ==
    /\ client' = c
    /\ UNCHANGED <<verb, baseURL, pathPrefix, subpath, params, headers, timeout,
                   err, body, ctx>>

\* textproto.CanonicalMIMEHeaderKey: a key made of token characters gets an
\* upper-case letter first and after each "-", lower-case letters elsewhere
CanonicalKey(k) ==
    IF ~IsToken(k) THEN k
    ELSE [i \in 1..Len(k) |->
            IF i = 1 \/ k[i - 1] = "-" THEN UpperChar(k[i]) ELSE LowerChar(k[i])]

\* Header (src/request.go:169-178): Del(key), then Add each value
Header(key, values) ==
    LET k   == CanonicalKey(key)
        old == headers.map
        new == IF values = <<>>
               THEN [x \in DOMAIN old \ {k} |-> old[x]]
               ELSE [x \in DOMAIN old \cup {k} |-> IF x = k THEN values ELSE old[x]]
    IN  /\ headers' = [isNil |-> FALSE, map |-> new]
        /\ UNCHANGED <<client, verb, baseURL, pathPrefix, subpath, params, timeout,
                       err, body, ctx>>

\* Timeout (src/request.go:180-186)
Timeout(d) ==
    /\ timeout' = IF err # NoErr THEN timeout ELSE d
    /\ UNCHANGED <<client, verb, baseURL, pathPrefix, subpath, params, headers,
                   err, body, ctx>>

\* Context (src/request.go:188-191)
Context(c) ==
    /\ ctx' = c
    /\ UNCHANGED <<client, verb, baseURL, pathPrefix, subpath, params, headers,
                   timeout, err, body>>

\* Prefix (src/request.go:193-199)
Prefix(segments) ==
    /\ pathPrefix' = IF err # NoErr THEN pathPrefix
                     ELSE Join(<<pathPrefix, Join(segments)>>)
    /\ UNCHANGED <<client, verb, baseURL, subpath, params, headers, timeout,
                   err, body, ctx>>

\* Suffix (src/request.go:201-207)
Suffix(segments) ==
    /\ subpath' = IF err # NoErr THEN subpath
                  ELSE Join(<<subpath, Join(segments)>>)
    /\ UNCHANGED <<client, verb, baseURL, pathPrefix, params, headers, timeout,
                   err, body, ctx>>

\* AbsPath (src/request.go:209-219), where r.baseURL is not nil
AbsPath(segments) ==
    LET joined == Join(<<baseURL.Path, Join(segments)>>)
        keep   == /\ Len(segments) = 1
                  /\ (Len(baseURL.Path) > 1 \/ Len(segments[1]) > 1)
                  /\ HasSuffix(segments[1], Slash)
    IN  /\ pathPrefix' = IF err # NoErr THEN pathPrefix
                         ELSE IF keep THEN joined \o Slash ELSE joined
        /\ UNCHANGED <<client, verb, baseURL, subpath, params, headers, timeout,
                       err, body, ctx>>

\* the loop of src/request.go:235-237: r.params[k] = v for each key of the query
MergeQuery(old, q) ==
    [k \in DOMAIN old \cup DOMAIN q |-> IF k \in DOMAIN q THEN q[k] ELSE old[k]]

\* RequestURI (src/request.go:221-240)
RequestURI(uri) ==
    LET locator == ParseURL(uri)
    IN  /\ err' = IF err = NoErr /\ ~locator.ok THEN ConfigErr("uriparse") ELSE err
        /\ pathPrefix' = IF err = NoErr /\ locator.ok THEN locator.Path ELSE pathPrefix
        /\ params' = IF err = NoErr /\ locator.ok
                     THEN MergeQuery(params, ParseQuery(locator.RawQuery))
                     ELSE params
        /\ UNCHANGED <<client, verb, baseURL, subpath, headers, timeout, body, ctx>>

\* setParam (src/request.go:249-255)
setParam(old, paramName, value) ==
    [k \in DOMAIN old \cup {paramName} |->
        IF k = paramName
        THEN (IF paramName \in DOMAIN old THEN Append(old[paramName], value) ELSE <<value>>)
        ELSE old[k]]

\* Param (src/request.go:242-247)
Param(paramName, value) ==
    /\ params' = IF err # NoErr THEN params ELSE setParam(params, paramName, value)
    /\ UNCHANGED <<client, verb, baseURL, pathPrefix, subpath, headers, timeout,
                   err, body, ctx>>

\* a Body that runs whatever r.err holds
BodyUnguarded(obj) ==
    LET fails == \/ obj.type = "other"
                 \/ obj.type = "string" /\ ~obj.ok
        reader == CASE obj.type \in {"string", "bytes"} ->
                         [kind |-> "bytes", data |-> BodyData, pos |-> 0]
                    [] obj.type \in {"seeker", "stream"} ->
                         [kind |-> obj.type, data |-> BodyData, pos |-> obj.pos]
                    [] OTHER -> body
    IN  /\ body' = IF fails THEN body ELSE reader
        /\ err' = IF obj.type = "other" THEN ConfigErr("unknown type used for body")
                  ELSE IF fails THEN ConfigErr("readfile")
                  ELSE err
        /\ UNCHANGED <<client, verb, baseURL, pathPrefix, subpath, params, headers,
                       timeout, ctx>>

\* Body (src/request.go:257-277)
Body(obj) ==
    LET fails == \/ obj.type = "other"
                 \/ obj.type = "string" /\ ~obj.ok
        reader == CASE obj.type \in {"string", "bytes"} ->
                         [kind |-> "bytes", data |-> BodyData, pos |-> 0]
                    [] obj.type \in {"seeker", "stream"} ->
                         [kind |-> obj.type, data |-> BodyData, pos |-> obj.pos]
                    [] OTHER -> body
    IN  /\ body' = IF err # NoErr \/ fails THEN body ELSE reader
        /\ err' = IF err # NoErr THEN err
                  ELSE IF obj.type = "other" THEN ConfigErr("unknown type used for body")
                  ELSE IF fails THEN ConfigErr("readfile")
                  ELSE err
        /\ UNCHANGED <<client, verb, baseURL, pathPrefix, subpath, params, headers,
                       timeout, ctx>>

RECURSIVE Itoa(_)
\* strconv.Itoa of a natural number
Itoa(n) == IF n < 10 THEN <<Digits[n + 1]>> ELSE Itoa(n \div 10) \o <<Digits[(n % 10) + 1]>>

\* time.Duration.String() of a duration of d whole seconds (r.timeout is
\* kept in seconds): "2s", "1m30s", "1h0m0s", "-2s"
DurationString(d) ==
    LET a == IF d < 0 THEN 0 - d ELSE d
        h == a \div 3600
        m == (a % 3600) \div 60
        sec == a % 60
        txt == IF h > 0 THEN Itoa(h) \o <<"h">> \o Itoa(m) \o <<"m">> \o Itoa(sec) \o <<"s">>
               ELSE IF m > 0 THEN Itoa(m) \o <<"m">> \o Itoa(sec) \o <<"s">>
               ELSE Itoa(sec) \o <<"s">>
    IN  IF d < 0 THEN <<"-">> \o txt ELSE txt

\* the byte order of the letters and digits, which sort.Strings compares
CharRank(c) == IndexOf(c, Digits \o Uppers \o Lowers)

RECURSIVE StrLess(_, _)
\* a < b for strings
StrLess(a, b) ==
    IF a = <<>> THEN b # <<>>
    ELSE IF b = <<>> THEN FALSE
    ELSE IF a[1] = b[1] THEN StrLess(Tail(a), Tail(b))
    ELSE CharRank(a[1]) < CharRank(b[1])

RECURSIVE SortedKeys(_)
\* the keys of a url.Values in the order of sort.Strings
SortedKeys(S) ==
    IF S = {} THEN <<>>
    ELSE LET least == CHOOSE k \in S : \A j \in S \ {k} : StrLess(k, j)
         IN  <<least>> \o SortedKeys(S \ {least})

\* url.QueryEscape: letters, digits and "-", "_", ".", "~" stay, a space
\* becomes "+", and the other characters of the model their %XX form
QueryEscapeChar(c) ==
    IF (IsTokenChar(c) /\ c # "+") \/ c = "~" THEN <<c>>
    ELSE CASE c = " " -> <<"+">>
           [] c = "/" -> <<"%","2","F">>
           [] c = "=" -> <<"%","3","D">>
           [] c = "&" -> <<"%","2","6">>
           [] c = "?" -> <<"%","3","F">>
           [] c = ":" -> <<"%","3","A">>
           [] c = "+" -> <<"%","2","B">>
           [] OTHER   -> <<"%","x","x">>

RECURSIVE QueryEscape(_)
QueryEscape(s) ==
    IF s = <<>> THEN <<>> ELSE QueryEscapeChar(Head(s)) \o QueryEscape(Tail(s))

RECURSIVE EncodeKeys(_, _)
\* url.Values.Encode: "k=v" for every value of every key, the keys sorted,
\* joined by "&"
EncodeKeys(keys, values) ==
    IF keys = <<>> THEN <<>>
    ELSE [i \in 1..Len(values[Head(keys)]) |->
             QueryEscape(Head(keys)) \o <<"=">> \o QueryEscape(values[Head(keys)][i])]
         \o EncodeKeys(Tail(keys), values)

Encode(values) == JoinWith(EncodeKeys(SortedKeys(DOMAIN values), values), <<"&">>)

\* URL (src/request.go:279-301): the base URL with the path r.pathPrefix; the
\* query is r.params, with "timeout" set when r.timeout is not zero
URL ==
    LET query == IF timeout # 0
                 THEN [k \in DOMAIN params \cup {sTimeout} |->
                          IF k = sTimeout THEN <<DurationString(timeout)>> ELSE params[k]]
                 ELSE params
    IN  [Scheme |-> baseURL.Scheme, Host |-> baseURL.Host, Path |-> pathPrefix,
         Query |-> query, RawQuery |-> Encode(query)]

(***************************************************************************)
(* Do() and the retry loop of request() (src/request.go:346-423).          *)
(***************************************************************************)
\* src/request.go:367
maxRetries == 10

\* status codes a server answers with in the model
StatusCodes == {101, 199, 200, 206, 207, 299, 300, 403, 404, 429, 499, 500, 503}

\* values of the Retry-After header: absent, "0", "-1", "1s"
RetryAfterInputs == { <<>>, << <<"0">> >>, << <<"-","1">> >>, << <<"1","s">> >> }

sJson == <<"a","p","p","l","i","c","a","t","i","o","n","/","j","s","o","n">>

\* Content-Type, body text and read error of the responses of the retry loop
PayloadInputs ==
    { [ct |-> <<>>,        text |-> <<" ","x"," ">>, readErr |-> "nil"],
      [ct |-> <<sJson>>,   text |-> <<"{","}">>,     readErr |-> "nil"],
      [ct |-> <<>>,        text |-> <<>>,            readErr |-> "stream"],
      [ct |-> <<>>,        text |-> <<>>,            readErr |-> "other"] }

\* a throttling answer whose body is one byte longer than what the deferred
\* function of the retry loop reads (2 << 10, src/request.go:398)
LargeResponse == Response(503, << <<"0">> >>, <<sJson>>, Rep("x", 2049), "nil")

Responses ==
    { Response(st, ra, p.ct, p.text, p.readErr) :
        st \in StatusCodes, ra \in RetryAfterInputs, p \in PayloadInputs }
    \cup {LargeResponse}

\* errors of client.Do: a connection reset as net/http reports it, the bare
\* errno, a reset wrapped in an unexpected order, and failures that are no
\* reset (refused connection, DNS, TLS, canceled context, deadline)
TransportErrors ==
    { TransportErr(<<"url", "op", "sys">>, "ECONNRESET"),
      TransportErr(<<>>, "ECONNRESET"),
      TransportErr(<<"op", "url">>, "ECONNRESET"),
      TransportErr(<<"url", "op", "sys">>, "ECONNREFUSED"),
      TransportErr(<<"url", "op">>, "dns"),
      TransportErr(<<"url">>, "tls"),
      TransportErr(<<"url">>, "context canceled"),
      TransportErr(<<"url">>, "context deadline exceeded") }

\* what one client.Do call yields: an error, or a response
Outcomes ==
    { [err |-> e, resp |-> NoResponse] : e \in TransportErrors }
    \cup { [err |-> NoErr, resp |-> r] : r \in Responses }

\* net/http's validMethod, after NewRequest has replaced "" by "GET"
ValidMethod(m) == m = <<>> \/ IsToken(m)

\* a retry test that allows one evaluation more
ShouldRetryInclusive(wait, n) == wait /\ n <= maxRetries

\* the retry test of src/request.go:406, n being retries after its increment
ShouldRetry(wait, n) == wait /\ n < maxRetries

\* a carve-out that forgets the verb
RetriesResetAnyVerb(e, v) == IsConnectionReset(e)

\* a carve-out that forgets the kind of the error
RetriesAnyErrorOnGet(e, v) == v = sGET

\* the carve-out of src/request.go:382: the error is replaced by the
\* placeholder response exactly when this holds
RetriesReset(e, v) == ~(~IsConnectionReset(e) \/ v # sGET)

\* the transport reads the request body from its position up to some point
BodyAfterSend(b, n) == [b EXCEPT !.pos = n]

\* the bytes a request made with the body b carries: what b yields from its
\* read position to its end
Carried(b) == SubSeq(b.data, b.pos + 1, Len(b.data))

\* Do (src/request.go:346-348) entering request() (src/request.go:357-368)
DoStart ==
    /\ pc = "config"
    /\ IF err # NoErr
       THEN /\ reqErr' = err
            /\ pc' = "done"
       ELSE /\ reqErr' = NoErr
            /\ pc' = "send"
    /\ retries' = 0
    /\ UNCHANGED <<resp, respOpen, isDone, result, stream, streamErr>>
    /\ UNCHANGED <<reqVars, intoVars, histVars>>

\* one pass of src/request.go:370-391: build the request, call client.Do
Send ==
    /\ pc = "send"
    /\ IF ~ValidMethod(verb)
       THEN /\ reqErr' = NewRequestErr
            /\ pc' = "done"
            /\ UNCHANGED <<resp, respOpen, sends, body, lastErr, firstSent, lastSent,
                           drained>>
       ELSE \E o \in Outcomes, n \in body.pos..Len(body.data) :
            /\ sends' = sends + 1
            /\ lastErr' = o.err
            /\ lastSent' = Carried(body)
            /\ drained' = 0
            /\ firstSent' = IF sends = 0 THEN Carried(body) ELSE firstSent
            /\ body' = BodyAfterSend(body, n)
            /\ IF o.err # NoErr
               THEN IF RetriesReset(o.err, verb)
                    THEN /\ resp' = SynthesizedResponse
                         /\ respOpen' = TRUE
                         /\ pc' = "evaluate"
                         /\ UNCHANGED reqErr
                    ELSE /\ reqErr' = o.err
                         /\ pc' = "done"
                         /\ UNCHANGED <<resp, respOpen>>
               ELSE /\ resp' = o.resp
                    /\ respOpen' = TRUE
                    /\ pc' = "evaluate"
                    /\ UNCHANGED reqErr
    /\ UNCHANGED <<retries, isDone, result, stream, streamErr>>
    /\ UNCHANGED <<client, verb, baseURL, pathPrefix, subpath, params, headers,
                   timeout, err, ctx>>
    /\ UNCHANGED <<calls, callbacks, allWait, seekFailed, firstFailure>>
    /\ UNCHANGED intoVars

\* a response that asks for a retry: status 429 or at least 500, and a
\* Retry-After header whose first value is an integer
WaitCandidate(r) ==
    /\ r.StatusCode = 429 \/ r.StatusCode >= 500
    /\ AtoiOk(Get(r.Header.RetryAfter))

\* whether r.body passes the type assertion of src/request.go:407
IsSeeker(b) == b.kind \in {"bytes", "seeker"}

\* the results Seek(0, 0) can have: a bytes.Reader always seeks, a caller's
\* io.Seeker may fail
SeekResults(b) == IF b.kind = "bytes" THEN {TRUE} ELSE BOOLEAN

\* the body of the closure `done` (src/request.go:405-417): count the
\* response, then either leave it for a retry or hand it to the callback
\* fn, which is Do's (src/request.go:348-350)
Evaluate ==
    /\ pc = "evaluate"
    /\ retries' = retries + 1
    /\ allWait' = (allWait /\ WaitCandidate(resp))
    /\ \E seekOk \in SeekResults(body) :
         LET retry   == ShouldRetry(checkWait(resp)[2], retries + 1)
             seeks   == retry /\ IsSeeker(body)
             deliver == ~retry \/ (seeks /\ ~seekOk)
         IN  /\ body' = IF seeks /\ seekOk THEN [body EXCEPT !.pos = 0] ELSE body
             /\ seekFailed' = (seekFailed \/ (seeks /\ ~seekOk))
             /\ isDone' = deliver
             /\ result' = IF deliver THEN transformResponse(resp) ELSE result
             /\ callbacks' = IF deliver THEN callbacks + 1 ELSE callbacks
    /\ pc' = "drain"
    /\ UNCHANGED <<resp, respOpen, reqErr, stream, streamErr>>
    /\ UNCHANGED <<client, verb, baseURL, pathPrefix, subpath, params, headers,
                   timeout, err, ctx>>
    /\ UNCHANGED <<calls, sends, lastErr, firstFailure, firstSent, lastSent, drained>>
    /\ UNCHANGED intoVars

\* src/request.go:398 (2 << 10)
maxBodySlurpSize == 2048

\* resp.ContentLength: -1 when the length is not declared, else the length
\* of the body (0 in the placeholder response, whose body is empty)
ContentLengths(r) == {0 - 1, Len(r.Body)}

\* a body of which the callback's read leaves everything
UnreadWhole(r, delivered) == Len(r.Body)

\* what is left to read of resp.Body when the deferred function runs:
\* nothing once the callback's ioutil.ReadAll has read it, else all of it
Unread(r, delivered) == IF delivered THEN 0 ELSE Len(r.Body)

\* a deferred function that closes only a body the callback has read
ClosesBodyUndelivered(delivered) == delivered

\* the deferred function closes the body in every case (src/request.go:402)
ClosesBody(delivered) == TRUE

\* the deferred function of the closure (src/request.go:397-403), which runs
\* when the closure returns, and the test of its result
\* (src/request.go:419-421)
DrainClose ==
    /\ pc = "drain"
    /\ \E contentLength \in ContentLengths(resp) :
          drained' = IF contentLength <= maxBodySlurpSize
                     THEN Min({Unread(resp, isDone), maxBodySlurpSize})
                     ELSE 0
    /\ respOpen' = IF ClosesBody(isDone) THEN FALSE ELSE respOpen
    /\ pc' = IF isDone THEN "done" ELSE "send"
    /\ UNCHANGED <<retries, resp, isDone, result, reqErr, stream, streamErr>>
    /\ UNCHANGED <<reqVars, intoVars, calls, sends, callbacks, lastErr, allWait,
                   seekFailed, firstFailure, firstSent, lastSent>>

\* what Do() returns (src/request.go:351-354)
DoResult == IF reqErr # NoErr THEN ResultErr(reqErr) ELSE result

\* fmt.Errorf("%d while accessing %v: %s", ...) of src/request.go:340
WhileAccessingErr(statusCode, text) ==
    [NoErr EXCEPT !.kind = "errorf", !.fmt = "while accessing", !.text = text,
                  !.code = statusCode]

\* a success test that stops at http.StatusPartialContent
IsStreamSuccessTo206(statusCode) == statusCode >= 200 /\ statusCode <= 206

\* the first case of the switch of Stream (src/request.go:328)
IsStreamSuccess(statusCode) == statusCode >= 200 /\ statusCode < 300

\* Stream (src/request.go:303-344): the deferred error, or the one request
\* built without a body and sent once; a status in [200, 300) returns the
\* open body, any other status closes it and returns the error of its
\* classification, or the Errorf error when the classification has none
Stream ==
    /\ pc = "config"
    /\ pc' = "streamed"
    /\ IF err # NoErr
       THEN /\ stream' = "nil"
            /\ streamErr' = err
            /\ UNCHANGED <<resp, respOpen, sends, lastErr>>
       ELSE IF ~ValidMethod(verb)
       THEN /\ stream' = "nil"
            /\ streamErr' = NewRequestErr
            /\ UNCHANGED <<resp, respOpen, sends, lastErr>>
       ELSE \E o \in Outcomes :
            /\ sends' = sends + 1
            /\ lastErr' = o.err
            /\ IF o.err # NoErr
               THEN /\ stream' = "nil"
                    /\ streamErr' = o.err
                    /\ UNCHANGED <<resp, respOpen>>
               ELSE /\ resp' = o.resp
                    /\ IF IsStreamSuccess(o.resp.StatusCode)
                       THEN /\ stream' = "body"
                            /\ streamErr' = NoErr
                            /\ respOpen' = TRUE
                       ELSE LET res == transformResponse(o.resp)
                            IN  /\ stream' = "nil"
                                /\ streamErr' = IF res.err # NoErr THEN res.err
                                                ELSE WhileAccessingErr(res.statusCode, res.body)
                                /\ respOpen' = FALSE
    /\ UNCHANGED <<retries, isDone, result, reqErr>>
    /\ UNCHANGED <<reqVars, calls, callbacks, allWait, seekFailed, firstFailure,
                   firstSent, lastSent, drained>>
    /\ UNCHANGED intoVars

\* the error a Body(obj) call meets when it runs, NoErr when it meets none
BodyFailure(obj) ==
    IF obj.type = "other" THEN ConfigErr("unknown type used for body")
    ELSE IF obj.type = "string" /\ ~obj.ok THEN ConfigErr("readfile")
    ELSE NoErr

\* the error a RequestURI(uri) call meets when it runs
RequestURIFailure(uri) == IF ParseURL(uri).ok THEN NoErr ELSE ConfigErr("uriparse")

\* keep the first failure of the chain
NoteFailure(e) == firstFailure' = IF firstFailure = NoErr THEN e ELSE firstFailure

\* Body() in the chain before Do() or Stream()
SetBody ==
    /\ pc = "config"
    /\ \E obj \in BodyInputs : Body(obj) /\ NoteFailure(BodyFailure(obj))
    /\ UNCHANGED <<execVars, intoVars, calls, sends, callbacks, lastErr, allWait,
                   seekFailed, firstSent, lastSent, drained>>

\* RequestURI() in the chain before Do() or Stream()
SetRequestURI ==
    /\ pc = "config"
    /\ \E uri \in RequestURIInputs : RequestURI(uri) /\ NoteFailure(RequestURIFailure(uri))
    /\ UNCHANGED <<execVars, intoVars, calls, sends, callbacks, lastErr, allWait,
                   seekFailed, firstSent, lastSent, drained>>

Init ==
    /\ \E v \in VerbInputs : NewRequest(sHttps \o <<"h","/">>, v)
    /\ pc = "config"
    /\ retries = 0
    /\ resp = NoResponse
    /\ respOpen = FALSE
    /\ isDone = FALSE
    /\ result = NoResult
    /\ reqErr = NoErr
    /\ stream = "nil"
    /\ streamErr = NoErr
    /\ calls = <<>>
    /\ sends = 0
    /\ callbacks = 0
    /\ lastErr = NoErr
    /\ allWait = TRUE
    /\ seekFailed = FALSE
    /\ firstFailure = NoErr
    /\ firstSent = <<>>
    /\ lastSent = <<>>
    /\ drained = 0
    /\ intoErr = NoErr
    /\ target = "untouched"
    /\ decodeCalls = 0

Next == SetBody \/ SetRequestURI \/ DoStart \/ Send \/ Evaluate \/ DrainClose \/ Stream

Spec == Init /\ [][Next]_vars

(***************************************************************************)
(* Properties of Do() and the retry loop, checked under Spec.              *)
(***************************************************************************)
\* Do() has returned after at least one response was evaluated
ReturnedResponse == pc = "done" /\ reqErr = NoErr /\ callbacks > 0

\* the body can be sent again from its start: there is none, or every Seek
\* so far succeeded on a body that has one
Replayable == body.kind \in {"nil", "bytes", "seeker"} /\ ~seekFailed

\* C1 as stated: with an absent or seekable body and only wait-candidate
\* responses, Do() returns after exactly 10 sends and one callback, and the
\* Result has the status code of the 10th response and a classified error.
C1_Original ==
    (ReturnedResponse /\ allWait /\ Replayable)
        => /\ sends = 10
           /\ callbacks = 1
           /\ DoResult.statusCode = resp.StatusCode
           /\ DoResult.err.kind = "status"

\* C1 (amended): with an absent or seekable body and only wait-candidate
\* responses, Do() returns after exactly 10 sends and exactly one callback,
\* made on the 10th response; the Result is the classification of that
\* response: its status code and status error when its body was read without
\* error, else the read error with status code 0.
C1_RetryBound ==
    (ReturnedResponse /\ allWait /\ Replayable)
        => /\ sends = 10
           /\ retries = 10
           /\ callbacks = 1
           /\ WaitCandidate(resp)
           /\ IF resp.readErr = "nil"
              THEN /\ DoResult.statusCode = resp.StatusCode
                   /\ DoResult.err.kind = "status"
                   /\ DoResult.err = NewGenericServerResponse(resp.StatusCode, DoResult.err.text)
              ELSE /\ DoResult.statusCode = 0
                   /\ DoResult.err.kind \in {"stream", "unexpected"}

C1_Witness ==
    /\ ReturnedResponse /\ allWait /\ Replayable
    /\ body.kind = "bytes"
    /\ resp.StatusCode = 503 /\ Get(resp.Header.RetryAfter) = <<"0">>
    /\ resp.readErr = "nil"
    /\ sends = 10

\* C2: a request is sent again only after a wait-candidate response (429 or
\* >= 500 with an integer Retry-After); any other response ends the loop on
\* its own attempt: the callback runs once, on it, and Do() returns its
\* classification, whatever retries are left.
C2_RetryDecision ==
    /\ (pc \in {"send", "evaluate"} /\ retries > 0) => allWait
    /\ (pc = "send" /\ retries > 0) => WaitCandidate(resp)
    /\ (pc = "drain" /\ ~isDone) => WaitCandidate(resp)
    /\ (pc \in {"drain", "done"} /\ sends > 0 /\ lastErr = NoErr /\ ~WaitCandidate(resp))
          => /\ isDone
             /\ callbacks = 1
             /\ sends = retries
             /\ result = transformResponse(resp)
             /\ resp.readErr = "nil" =>
                   /\ result.statusCode = resp.StatusCode
                   /\ result.body = resp.Body
             /\ pc = "done" => DoResult = result

C2_Witness ==
    /\ pc = "done" /\ sends = 1 /\ callbacks = 1
    /\ resp.StatusCode = 404 /\ Get(resp.Header.RetryAfter) = <<"0">>
    /\ DoResult.statusCode = 404

\* C3: in Do(), a connection reset is answered by the verb.  For GET the placeholder
\* response (500, Retry-After: 1) takes the place of the error and is
\* evaluated like a real response: it is counted, and the request is sent
\* again unless this was the 10th evaluation or the body's Seek failed.  For
\* any other verb Do() returns that error at once: no callback, no more sends.
C3_ResetCarveOut ==
    (pc # "streamed" /\ sends > 0 /\ IsConnectionReset(lastErr)) =>
        IF verb = sGET
        THEN /\ pc # "done" \/ reqErr = NoErr
             /\ resp.StatusCode = 500
             /\ resp.Header.RetryAfter = << <<"1">> >>
             /\ pc \in {"drain", "send", "done"} =>
                   /\ retries = sends
                   /\ pc = "drain" => (isDone <=> (retries >= 10 \/ seekFailed))
                   /\ pc = "send" => retries < 10
                   /\ pc = "done" => (retries = 10 \/ seekFailed)
        ELSE /\ pc = "done"
             /\ reqErr = lastErr
             /\ DoResult = ResultErr(lastErr)
             /\ callbacks = 0
             /\ sends = retries + 1

C3_Witness ==
    /\ pc = "send" /\ verb = sGET /\ IsConnectionReset(lastErr)
    /\ retries = 2 /\ sends = 2

C3_WitnessPost ==
    /\ pc = "done" /\ verb # sGET /\ IsConnectionReset(lastErr) /\ retries = 1

\* C4: a transport failure that is no connection reset ends Do() on the
\* attempt it occurs on, for every verb and after any number of retries: no
\* further send, no callback, and the Result is that error alone (status
\* code 0, no body).
C4_FatalTransportError ==
    (pc # "streamed" /\ sends > 0 /\ lastErr # NoErr /\ ~IsConnectionReset(lastErr)) =>
        /\ pc = "done"
        /\ sends = retries + 1
        /\ callbacks = 0
        /\ DoResult.err = lastErr
        /\ DoResult.statusCode = 0
        /\ DoResult.body = <<>>

C4_Witness ==
    /\ pc = "done" /\ verb = sGET /\ retries = 3
    /\ lastErr = TransportErr(<<"url">>, "context canceled")
    /\ DoResult.err = lastErr

\* C5 as stated: a wait-candidate response is final, and handed to the
\* callback, whenever the body cannot be rewound: a stream without Seek, or
\* a Seek that failed.
C5_Original ==
    (pc = "drain" /\ WaitCandidate(resp) /\ (body.kind = "stream" \/ seekFailed))
        => isDone /\ callbacks = 1 /\ result = transformResponse(resp)

\* C6 as stated: a final response with a status in 200..299 whose body was
\* read without error gives a Result without error.
C6_Original ==
    (ReturnedResponse /\ resp.StatusCode \in 200..299 /\ resp.readErr = "nil")
        => DoResult.err = NoErr

\* C7: a Result returned by Do() with a status code outside 200..299 and
\* other than 101 has an error.
C7_ResultErrorInvariant ==
    pc = "done" =>
        ((DoResult.statusCode \notin 200..299 /\ DoResult.statusCode # 101)
            => DoResult.err # NoErr)

C7_Witness ==
    /\ pc = "done" /\ DoResult.statusCode = 300 /\ DoResult.err.kind = "status"

C7_WitnessZero ==
    /\ pc = "done" /\ DoResult.statusCode = 0 /\ DoResult.err.kind = "unexpected"

\* C11: the recorded error is the error of the first configuration call
\* that failed, whatever calls follow it; with an error recorded, Do() and
\* Stream() return exactly that error and no request is sent.
C11_FirstErrorSurfaced ==
    /\ err = firstFailure
    /\ err # NoErr => pc \in {"config", "done", "streamed"}
    /\ (pc = "done" /\ err # NoErr)
          => /\ DoResult = ResultErr(firstFailure)
             /\ sends = 0 /\ callbacks = 0
    /\ (pc = "streamed" /\ err # NoErr)
          => /\ stream = "nil"
             /\ streamErr = firstFailure
             /\ sends = 0

C11_Witness ==
    /\ pc = "done" /\ firstFailure = ConfigErr("readfile")
    /\ DoResult.err = ConfigErr("readfile") /\ sends = 0

C11_WitnessStream ==
    /\ pc = "streamed" /\ firstFailure = ConfigErr("uriparse")
    /\ streamErr = ConfigErr("uriparse") /\ sends = 0

\* C17 as stated: Stream() sends exactly one request whatever the outcome,
\* a connection reset on GET being returned as an error; a status in
\* [200, 300) returns the open body and a nil error, every other status
\* closes the body and returns a nil stream and a non-nil error.
C17_Original ==
    pc = "streamed" =>
        /\ sends = 1
        /\ lastErr # NoErr => stream = "nil" /\ streamErr = lastErr
        /\ (lastErr = NoErr /\ resp.StatusCode \in 200..299)
              => stream = "body" /\ streamErr = NoErr /\ respOpen
        /\ (lastErr = NoErr /\ resp.StatusCode \notin 200..299)
              => stream = "nil" /\ streamErr # NoErr /\ ~respOpen

\* C17 (amended): Stream() sends no request when a configuration error is
\* recorded or the verb is no valid method, and returns that error;
\* otherwise it sends exactly one request whatever the outcome, a transport
\* error (a connection reset on GET included) being returned as it is; a
\* status in [200, 300) returns the open body and a nil error, every other
\* status closes the body and returns a nil stream and a non-nil error.
C17_SingleShot ==
    pc = "streamed" =>
        IF err # NoErr \/ ~ValidMethod(verb)
        THEN /\ sends = 0
             /\ stream = "nil"
             /\ streamErr = IF err # NoErr THEN err ELSE NewRequestErr
        ELSE /\ sends = 1
             /\ lastErr # NoErr => stream = "nil" /\ streamErr = lastErr
             /\ (lastErr = NoErr /\ resp.StatusCode \in 200..299)
                   => stream = "body" /\ streamErr = NoErr /\ respOpen
             /\ (lastErr = NoErr /\ resp.StatusCode \notin 200..299)
                   => stream = "nil" /\ streamErr # NoErr /\ ~respOpen

C17_Witness ==
    /\ pc = "streamed" /\ sends = 1 /\ lastErr = NoErr
    /\ resp.StatusCode = 503 /\ Get(resp.Header.RetryAfter) = <<"0">>
    /\ stream = "nil" /\ streamErr.kind = "status" /\ ~respOpen

C17_WitnessOpen ==
    /\ pc = "streamed" /\ sends = 1 /\ resp.StatusCode = 299
    /\ stream = "body" /\ streamErr = NoErr /\ respOpen

C17_WitnessReset ==
    /\ pc = "streamed" /\ sends = 1 /\ verb = sGET
    /\ IsConnectionReset(lastErr) /\ streamErr = lastErr

\* C18: during Do() a response body, real or the placeholder's, is open
\* only between the client.Do that returned it and the end of its own pass
\* of the loop: it is closed whenever the next request is about to be sent
\* and when Do() has returned, so at most one body is open at any time.
C18_BodiesClosed ==
    /\ pc \in {"config", "send", "done"} => ~respOpen
    /\ pc \in {"evaluate", "drain"} => respOpen

C18_Witness ==
    /\ pc = "send" /\ retries = 3 /\ sends = 3 /\ ~respOpen
    /\ resp.StatusCode = 503

C18_WitnessPlaceholder ==
    /\ pc = "done" /\ resp = SynthesizedResponse /\ retries = 10 /\ ~respOpen

\* C19 as stated: for every response of the retry loop the bounded drain and
\* the close of the body come before the retry-versus-terminal decision,
\* hence before the callback: once the decision is taken the body is closed.
C19_Original == pc = "drain" => ~respOpen

\* C19 (amended): for every response of the retry loop the decision is
\* taken, and on a terminal response the callback is run, while the body is
\* open and nothing of it has been drained; the drain and the close come
\* after that, before the next request is sent and before Do() returns. The
\* drain discards what the callback left unread, 2048 bytes at most, and
\* nothing when the declared content length exceeds 2048.
C19_DecideThenDrain ==
    /\ pc = "evaluate" => respOpen /\ drained = 0
    /\ pc = "drain"
          => /\ respOpen /\ drained = 0
             /\ isDone => callbacks = 1 /\ result = transformResponse(resp)
             /\ ~isDone => callbacks = 0
    /\ (pc = "send" /\ retries > 0)
          => /\ ~respOpen /\ callbacks = 0
             /\ \/ drained = Min({Len(resp.Body), 2048})
                \/ Len(resp.Body) > 2048 /\ drained = 0
    /\ ReturnedResponse => ~respOpen /\ drained = 0

C19_Witness ==
    /\ pc = "drain" /\ isDone /\ callbacks = 1 /\ respOpen
    /\ resp.StatusCode = 404 /\ result.statusCode = 404

C19_WitnessDrained ==
    /\ pc = "send" /\ retries = 1 /\ resp = LargeResponse
    /\ drained = 2048 /\ ~respOpen

C19_WitnessSkipped ==
    /\ pc = "send" /\ retries = 1 /\ resp = LargeResponse
    /\ drained = 0 /\ ~respOpen

\* C20 as stated: with a seekable body (raw bytes, file contents, or a
\* caller's seekable stream at any initial read position) every request
\* sent during one Do() carries the same bytes as the first one.
C20_Original ==
    (IsSeeker(body) /\ sends >= 1 /\ pc \in {"send", "evaluate", "drain", "done"})
        => lastSent = firstSent

(***************************************************************************)
(* The classification alone, on responses whose body reaches the 2048-byte *)
(* cap: SpecMsg draws a response and applies transformResponse to it.      *)
(***************************************************************************)
sTextPlain == <<"t","e","x","t","/","p","l","a","i","n">>

\* Content-Type headers: absent, present but empty, text/plain, a text type
\* in upper case with a parameter, a type that is not text, and three that
\* are malformed or not text/*: "text/", "text/plain; charset", "text"
ContentTypeInputs ==
    { <<>>,
      << <<>> >>,
      << sTextPlain >>,
      << <<"T","E","X","T","/","h","t","m","l",";"," ","c","=","u">> >>,
      << sJson >>,
      << <<"t","e","x","t","/">> >>,
      << sTextPlain \o <<";"," ","c","h","a","r","s","e","t">> >>,
      << <<"t","e","x","t">> >> }

\* lengths around 0 and around the cap
TextLengths(pad) ==
    (0..pad) \cup
    ((maxUnstructuredResponseTextBytes - pad)..(maxUnstructuredResponseTextBytes + pad))

\* body texts: blanks, then a run of "x", then blanks
TextInputs(pad) ==
    { Rep(" ", l) \o Rep("x", c) \o Rep("\n", t) :
        l \in 0..pad, c \in TextLengths(pad), t \in 0..pad }

MsgStatusCodes == {400, 403, 406, 415, 429, 502}

MsgResponses(pad) ==
    { Response(st, <<>>, ct, text, "nil") :
        st \in MsgStatusCodes, ct \in ContentTypeInputs, text \in TextInputs(pad) }

InitMsg ==
    /\ NewRequest(sHttps \o <<"h","/">>, sGET)
    /\ pc = "classify"
    /\ resp \in MsgResponses(MaxPad)
    /\ retries = 0
    /\ respOpen = TRUE
    /\ isDone = FALSE
    /\ result = NoResult
    /\ reqErr = NoErr
    /\ stream = "nil"
    /\ streamErr = NoErr
    /\ calls = <<>>
    /\ sends = 0
    /\ callbacks = 0
    /\ lastErr = NoErr
    /\ allWait = TRUE
    /\ seekFailed = FALSE
    /\ firstFailure = NoErr
    /\ firstSent = <<>>
    /\ lastSent = <<>>
    /\ drained = 0
    /\ intoErr = NoErr
    /\ target = "untouched"
    /\ decodeCalls = 0

\* the callback of Do() (src/request.go:348-350) on the drawn response
Classify ==
    /\ pc = "classify"
    /\ result' = transformResponse(resp)
    /\ callbacks' = callbacks + 1
    /\ pc' = "classified"
    /\ UNCHANGED <<retries, resp, respOpen, isDone, reqErr, stream, streamErr>>
    /\ UNCHANGED <<reqVars, calls, sends, lastErr, allWait, seekFailed, firstFailure,
                   firstSent, lastSent, drained>>
    /\ UNCHANGED intoVars

NextMsg == Classify

SpecMsg == InitMsg /\ [][NextMsg]_vars

\* a response the claim calls texty: no Content-Type, or one that parses to
\* a text/* media type
Texty(r) ==
    LET v == Get(r.Header.ContentType)
    IN  \/ v = <<>>
        \/ ParseMediaType(v)[2] /\ HasPrefix(ParseMediaType(v)[1], TextSlash)

\* the body text cut to 2048 bytes and then trimmed, counted on a text made
\* of blanks and a run of "x": the blanks before the run use up the cap
LeadingBlanks(t) ==
    IF \E i \in 1..Len(t) : t[i] = "x"
    THEN Min({i \in 1..Len(t) : t[i] = "x"}) - 1
    ELSE Len(t)

RunLength(t) == Cardinality({i \in 1..Len(t) : t[i] = "x"})

ServerText(t) ==
    LET room == IF LeadingBlanks(t) >= 2048 THEN 0 ELSE 2048 - LeadingBlanks(t)
    IN  Rep("x", IF RunLength(t) < room THEN RunLength(t) ELSE room)

\* C8 as stated: for 403, 406, 415 and 429 the message is the server's text
\* (cut to 2048 bytes, then trimmed) when the response is texty, and
\* "unknown" when it is not.
C8_Original ==
    (pc = "classified" /\ resp.StatusCode \in {403, 406, 415, 429})
        => /\ result.err.kind = "status"
           /\ result.err.fmt = "text"
           /\ result.err.text = IF Texty(resp) THEN ServerText(resp.Body) ELSE Unknown

\* C8 (amended): for 403, 406 and 415 the message is the server's text (cut
\* to 2048 bytes, then trimmed) when the response is texty and "unknown"
\* when it is not; for 429 it is the fixed too-many-requests sentence,
\* whatever the body and the Content-Type.
C8_ServerTextMessages ==
    /\ (pc = "classified" /\ resp.StatusCode \in {403, 406, 415})
          => /\ result.err.kind = "status"
             /\ result.err.fmt = "text"
             /\ result.err.text = IF Texty(resp) THEN ServerText(resp.Body) ELSE Unknown
    /\ (pc = "classified" /\ resp.StatusCode = 429)
          => result.err = StatusError("toomanyrequests", <<>>, 0)

C8_Witness ==
    /\ pc = "classified" /\ resp.StatusCode = 403
    /\ Get(resp.Header.ContentType) = sTextPlain
    /\ Len(resp.Body) > 2048 /\ LeadingBlanks(resp.Body) = 1
    /\ Len(result.err.text) = 2047

C8_WitnessUnknown ==
    /\ pc = "classified" /\ resp.StatusCode = 415
    /\ Get(resp.Header.ContentType) = sJson
    /\ RunLength(resp.Body) > 0
    /\ result.err.text = Unknown

(***************************************************************************)
(* The configuration chain alone: SpecCfg starts from NewRequest and makes *)
(* up to MaxCalls configuration calls, each recorded in calls.             *)
(***************************************************************************)
sXa   == <<"x","-","a">>
sA    == <<"a">>
sOne  == <<"1">>
sTwo  == <<"2">>

CfgVerbInputs   == { <<"g","e","t">>, <<"P","O","S","T">> }
ClientInputs    == {"nil", "custom"}
HeaderInputs    == { <<sXa, <<>> >>, <<sXa, <<sOne>> >> }
TimeoutInputs   == {0, 2}
ContextInputs   == {"nil", "ctx"}
PrefixInputs    == { <<sApi, sV1>>, <<>> }
SuffixInputs    == { <<sItems, <<>> >>, <<sFooSl>> }
AbsPathInputs   == { <<sFooSl>>, <<Slash>>, <<sApi, sV1>> }
ParamInputs     == { <<sA, sOne>>, <<sA, sTwo>>, <<sTimeout, <<"9","9">> >> }

\* one more call of the chain: strings in args, an identifier in tag, a
\* number in n
Call(method, args, tag, n) == [method |-> method, args |-> args, tag |-> tag, n |-> n]

Record(c) ==
    /\ pc = "config"
    /\ Len(calls) < MaxCalls
    /\ calls' = Append(calls, c)
    /\ UNCHANGED <<retries, resp, respOpen, isDone, result, reqErr, stream, streamErr>>
    /\ UNCHANGED <<sends, callbacks, lastErr, allWait, seekFailed, firstSent, lastSent,
                   drained>>
    /\ UNCHANGED intoVars

CfgHttpClient ==
    \E c \in ClientInputs :
        Record(Call("HttpClient", <<>>, c, 0)) /\ HttpClient(c) /\ pc' = pc
        /\ UNCHANGED firstFailure

CfgHeader ==
    \E h \in HeaderInputs :
        Record(Call("Header", <<h[1]>> \o h[2], "", 0)) /\ Header(h[1], h[2]) /\ pc' = pc
        /\ UNCHANGED firstFailure

CfgTimeout ==
    \E d \in TimeoutInputs :
        Record(Call("Timeout", <<>>, "", d)) /\ Timeout(d) /\ pc' = pc
        /\ UNCHANGED firstFailure

CfgContext ==
    \E c \in ContextInputs :
        Record(Call("Context", <<>>, c, 0)) /\ Context(c) /\ pc' = pc
        /\ UNCHANGED firstFailure

CfgPrefix ==
    \E segs \in PrefixInputs :
        Record(Call("Prefix", segs, "", 0)) /\ Prefix(segs) /\ pc' = pc
        /\ UNCHANGED firstFailure

CfgSuffix ==
    \E segs \in SuffixInputs :
        Record(Call("Suffix", segs, "", 0)) /\ Suffix(segs) /\ pc' = pc
        /\ UNCHANGED firstFailure

\* AbsPath reads r.baseURL.Path (src/request.go:213): with the nil baseURL
\* that NewRequest leaves for an address it cannot parse, the call panics
CfgAbsPath ==
    \E segs \in AbsPathInputs :
        /\ Record(Call("AbsPath", segs, "", 0))
        /\ IF err = NoErr /\ ~baseURL.ok
           THEN pc' = "panic" /\ UNCHANGED reqVars
           ELSE pc' = pc /\ AbsPath(segs)
        /\ UNCHANGED firstFailure

CfgRequestURI ==
    \E uri \in RequestURIInputs \cup {sUriTimeout} :
        Record(Call("RequestURI", <<uri>>, "", 0)) /\ RequestURI(uri) /\ pc' = pc
        /\ NoteFailure(RequestURIFailure(uri))

CfgParam ==
    \E kv \in ParamInputs :
        Record(Call("Param", kv, "", 0)) /\ Param(kv[1], kv[2]) /\ pc' = pc
        /\ UNCHANGED firstFailure

CfgBody ==
    \E obj \in BodyInputs :
        Record(Call("Body", <<>>, obj.type, obj.pos)) /\ Body(obj) /\ pc' = pc
        /\ NoteFailure(BodyFailure(obj))

InitCfg ==
    /\ \E b \in BaseInputs, v \in CfgVerbInputs : NewRequest(b, v)
    /\ pc = "config"
    /\ retries = 0
    /\ resp = NoResponse
    /\ respOpen = FALSE
    /\ isDone = FALSE
    /\ result = NoResult
    /\ reqErr = NoErr
    /\ stream = "nil"
    /\ streamErr = NoErr
    /\ calls = <<>>
    /\ sends = 0
    /\ callbacks = 0
    /\ lastErr = NoErr
    /\ allWait = TRUE
    /\ seekFailed = FALSE
    /\ firstFailure = NoErr
    /\ firstSent = <<>>
    /\ lastSent = <<>>
    /\ drained = 0
    /\ intoErr = NoErr
    /\ target = "untouched"
    /\ decodeCalls = 0

NextCfg ==
    \/ CfgHttpClient \/ CfgHeader \/ CfgTimeout \/ CfgContext \/ CfgPrefix
    \/ CfgSuffix \/ CfgAbsPath \/ CfgRequestURI \/ CfgParam \/ CfgBody

SpecCfg == InitCfg /\ [][NextCfg]_vars

(***************************************************************************)
(* Properties of the configuration chain, checked under SpecCfg.           *)
(***************************************************************************)
RECURSIVE SegmentsOf(_, _)
\* the joined segments of every call of one method, in call order
SegmentsOf(cs, method) ==
    IF cs = <<>> THEN <<>>
    ELSE IF Head(cs).method = method
         THEN <<Join(Head(cs).args)>> \o SegmentsOf(Tail(cs), method)
         ELSE SegmentsOf(Tail(cs), method)

\* no AbsPath and no RequestURI call has set the path
NoPathOverride ==
    \A i \in 1..Len(calls) : calls[i].method \notin {"AbsPath", "RequestURI"}

\* C9 as stated: without a path override, the path of URL() is
\* join(prefix, subpath), prefix being the base path extended by the Prefix
\* segments and subpath the join of the Suffix segments; on an empty base
\* path, Prefix("/api","/v1") then Suffix("items","") gives /api/v1/items.
C9_Original ==
    (pc = "config" /\ err = NoErr /\ NoPathOverride) =>
        /\ URL.Path = Join(<< Join(<<Slash, baseURL.Path>> \o SegmentsOf(calls, "Prefix")),
                              Join(SegmentsOf(calls, "Suffix")) >>)
        /\ (/\ baseURL.Path = <<>>
            /\ calls = << Call("Prefix", <<sApi, sV1>>, "", 0),
                          Call("Suffix", <<sItems, <<>> >>, "", 0) >>)
              => URL.Path = sApi \o sV1 \o Slash \o sItems

\* C10 as stated: once r.err is set, a configuration call changes no field
\* of the Request.
C10_Original ==
    [][(pc = "config" /\ err # NoErr) => (reqVars' = reqVars)]_vars

\* C12 as stated: on a Request built from any base address, every
\* configuration call returns normally: no call of the chain panics.
C12_Original == pc # "panic"

\* the values of one key in a url.Values, none when the key is absent
ValuesOf(q, key) == IF key \in DOMAIN q THEN q[key] ELSE <<>>

RECURSIVE Supplied(_, _)
\* the values the calls of a chain supplied under one key, in call order: by
\* Param, or in the query of a RequestURI
Supplied(cs, key) ==
    IF cs = <<>> THEN <<>>
    ELSE LET c == Head(cs)
             here == IF c.method = "Param" /\ c.args[1] = key THEN <<c.args[2]>>
                     ELSE IF c.method = "RequestURI" /\ ParseURL(c.args[1]).ok
                     THEN ValuesOf(ParseQuery(ParseURL(c.args[1]).RawQuery), key)
                     ELSE <<>>
         IN  here \o Supplied(Tail(cs), key)

RECURSIVE LastTimeout(_)
\* the duration of the last Timeout call of a chain, 0 when there is none
LastTimeout(cs) ==
    IF cs = <<>> THEN 0
    ELSE IF cs[Len(cs)].method = "Timeout" THEN cs[Len(cs)].n
    ELSE LastTimeout(SubSeq(cs, 1, Len(cs) - 1))

\* C13 as stated: with a nonzero timeout configured, the query of URL() has
\* exactly one timeout value, the duration's string, whatever timeout values
\* Param or RequestURI supplied before or after; with no timeout or a zero
\* one, the timeout values the caller supplied pass through unchanged.
C13_Original ==
    (pc = "config" /\ err = NoErr) =>
        IF LastTimeout(calls) # 0
        THEN ValuesOf(ParseQuery(URL.RawQuery), sTimeout)
                = <<DurationString(LastTimeout(calls))>>
        ELSE ValuesOf(ParseQuery(URL.RawQuery), sTimeout) = Supplied(calls, sTimeout)

\* the elements of a sequence
Range(q) == {q[i] : i \in 1..Len(q)}

\* C14 as stated: after Param and RequestURI calls without a configuration
\* error, every value supplied under a key other than timeout is present
\* under that key in the query of URL(); Param("a","1") then Param("a","2")
\* yields both a=1 and a=2.
C14_Original ==
    (pc = "config" /\ err = NoErr) =>
        /\ Range(Supplied(calls, sA)) \subseteq Range(ValuesOf(ParseQuery(URL.RawQuery), sA))
        /\ calls = << Call("Param", <<sA, sOne>>, "", 0), Call("Param", <<sA, sTwo>>, "", 0) >>
              => ValuesOf(ParseQuery(URL.RawQuery), sA) = <<sOne, sTwo>>

(***************************************************************************)
(* Result.Raw, Result.Into and decode.Decode (src/request.go:63-87,        *)
(* 517-536): SpecInto draws what Do() ends with, a response handed to the  *)
(* callback or a transport error, and applies Into to the Result.          *)
(***************************************************************************)
sYaml    == <<"a","p","p","l","i","c","a","t","i","o","n","/","y","a","m","l">>
sAppXml  == <<"a","p","p","l","i","c","a","t","i","o","n","/","x","m","l">>
sTextXml == <<"t","e","x","t","/","x","m","l">>

\* fmt.Errorf("0-length response") of src/request.go:73
ZeroLengthErr == [NoErr EXCEPT !.kind = "errorf", !.fmt = "0-length response"]

\* the errors of mime.ParseMediaType: no media type in an empty value, a
\* malformed type, a malformed parameter
MediaTypeErr(v) ==
    [NoErr EXCEPT !.kind = "mime",
                  !.leaf = IF TrimSpace(Split(v, ";")[1]) = <<>> THEN "no media type"
                           ELSE IF ParseMediaType(v)[1] = <<>> THEN "malformed media type"
                           ELSE "invalid media parameter"]

\* the error of json.Unmarshal, yaml.Unmarshal or xml.Unmarshal
UnmarshalErr(format, what) == [NoErr EXCEPT !.kind = "unmarshal", !.fmt = format, !.leaf = what]

\* whether the document is well formed in the format, for the documents of
\* the model: "{}" is JSON and YAML, "<a/>" is XML and a YAML scalar, "x" is
\* a YAML scalar only
WellFormed(format, data) ==
    CASE format = "json" -> data = <<"{","}">>
      [] format = "yaml" -> Len(data) > 0 /\ (data[1] = "{" => data[Len(data)] = "}")
      [] format = "xml"  -> /\ Len(data) > 3 /\ data[1] = "<"
                            /\ SubSeq(data, Len(data) - 1, Len(data)) = <<"/",">">>

\* the format decode.Decode picks for a media type (src/request.go:518-533)
FormatOfTextAsXml(mediaType) ==
    CASE mediaType = sJson -> "json"
      [] mediaType = sYaml -> "yaml"
      [] mediaType = sAppXml \/ HasPrefix(mediaType, TextSlash) -> "xml"
      [] OTHER -> "none"

\* the format decode.Decode picks for a media type (src/request.go:518-533)
FormatOf(mediaType) ==
    CASE mediaType = sJson -> "json"
      [] mediaType = sYaml -> "yaml"
      [] mediaType \in {sAppXml, sTextXml} -> "xml"
      [] OTHER -> "none"

\* decode.Decode (src/request.go:517-536) on the caller's target: the
\* Unmarshal of the format fails on a malformed document (the target is not
\* written) or on one that does not fit the type of the target (it may be
\* written in part); a media type without a format decodes nothing
Decode(data, mediaType, fits) ==
    LET format == FormatOf(mediaType)
    IN  IF format = "none" THEN [err |-> NoErr, target |-> "untouched", unmarshals |-> 0]
        ELSE IF ~WellFormed(format, data)
        THEN [err |-> UnmarshalErr(format, "syntax"), target |-> "untouched", unmarshals |-> 1]
        ELSE IF ~fits
        THEN [err |-> UnmarshalErr(format, "type"), target |-> "partial", unmarshals |-> 1]
        ELSE [err |-> NoErr, target |-> "decoded", unmarshals |-> 1]

\* Result.Raw (src/request.go:63-65)
Raw(r) == <<r.body, r.err>>

\* Result.Into (src/request.go:67-87); `out == obj` never holds, out being
\* the address of Into's own parameter, so Decode's error is what is returned
Into(r, fits) ==
    IF r.err # NoErr
    THEN [err |-> r.err, target |-> "untouched", decodeCalls |-> 0]
    ELSE IF Len(r.body) = 0
    THEN [err |-> ZeroLengthErr, target |-> "untouched", decodeCalls |-> 0]
    ELSE IF ~ParseMediaType(r.contentType)[2]
    THEN [err |-> MediaTypeErr(r.contentType), target |-> "untouched", decodeCalls |-> 0]
    ELSE LET out == Decode(r.body, ParseMediaType(r.contentType)[1], fits)
         IN  [err |-> out.err, target |-> out.target, decodeCalls |-> 1]

IntoStatusCodes == {101, 200, 204, 206, 207, 299, 404, 500}

\* Content-Type headers: absent, the four decodable types (one in upper case
\* with a parameter), two that are not decodable, one that does not parse
IntoContentTypes ==
    { <<>>,
      << sJson >>,
      << <<"A","p","p","l","i","c","a","t","i","o","n","/","J","S","O","N",";"," ","c","=","u">> >>,
      << sYaml >>,
      << sAppXml >>,
      << sTextXml >>,
      << sTextPlain >>,
      << <<"i","m","a","g","e","/","p","n","g">> >>,
      << <<"t","e","x","t","/">> >> }

IntoBodies == { <<>>, <<"{","}">>, <<"<","a","/",">">>, <<"x">> }

IntoResponses ==
    { Response(st, <<>>, ct, text, readErr) :
        st \in IntoStatusCodes, ct \in IntoContentTypes, text \in IntoBodies,
        readErr \in {"nil", "other"} }

\* Do() has ended: the callback is about to classify a response, or
\* request() has returned a transport error
InitInto ==
    /\ NewRequest(sHttps \o <<"h","/">>, sGET)
    /\ \/ /\ pc = "classify"
          /\ resp \in IntoResponses
          /\ reqErr = NoErr
          /\ respOpen = TRUE
          /\ lastErr = NoErr
       \/ /\ pc = "done"
          /\ resp = NoResponse
          /\ reqErr \in {e \in TransportErrors : ~RetriesReset(e, sGET)}
          /\ respOpen = FALSE
          /\ lastErr = reqErr
    /\ retries = 0
    /\ isDone = FALSE
    /\ result = NoResult
    /\ stream = "nil"
    /\ streamErr = NoErr
    /\ calls = <<>>
    /\ sends = 1
    /\ callbacks = 0
    /\ allWait = TRUE
    /\ seekFailed = FALSE
    /\ firstFailure = NoErr
    /\ firstSent = <<>>
    /\ lastSent = <<>>
    /\ drained = 0
    /\ intoErr = NoErr
    /\ target = "untouched"
    /\ decodeCalls = 0

\* Into on the Result Do() returned, with a target whose type the decoded
\* document fits or does not fit
ResultInto ==
    /\ pc \in {"classified", "done"}
    /\ \E fits \in BOOLEAN :
          LET out == Into(DoResult, fits)
          IN  /\ intoErr' = out.err
              /\ target' = out.target
              /\ decodeCalls' = decodeCalls + out.decodeCalls
    /\ pc' = "decoded"
    /\ UNCHANGED <<retries, resp, respOpen, isDone, result, reqErr, stream, streamErr>>
    /\ UNCHANGED <<reqVars, histVars>>

NextInto == Classify \/ ResultInto

SpecInto == InitInto /\ [][NextInto]_vars

\* a Result of Do() for a response with a status in 200..299 and an empty
\* body that was read without error
EmptySuccess ==
    /\ reqErr = NoErr /\ resp.StatusCode \in 200..299
    /\ resp.Body = <<>> /\ resp.readErr = "nil"

\* C15 as stated: on the Result of a 2xx response with an empty body, Into
\* fails with "0-length response" without decoding and without touching the
\* target, and Raw returns the empty bytes with a nil error; in general Into
\* checks, in this order and before any decoding, that the Result has no
\* error, that the body is not empty and that the Content-Type parses, and
\* returns the error of the first check that fails.
C15_Original ==
    pc = "decoded" =>
        /\ EmptySuccess
              => /\ intoErr = ZeroLengthErr
                 /\ decodeCalls = 0 /\ target = "untouched"
                 /\ Raw(DoResult) = << <<>>, NoErr >>
        /\ IF DoResult.err # NoErr
           THEN intoErr = DoResult.err /\ decodeCalls = 0 /\ target = "untouched"
           ELSE IF DoResult.body = <<>>
           THEN intoErr = ZeroLengthErr /\ decodeCalls = 0 /\ target = "untouched"
           ELSE IF ~ParseMediaType(DoResult.contentType)[2]
           THEN intoErr.kind = "mime" /\ decodeCalls = 0 /\ target = "untouched"
           ELSE decodeCalls = 1

\* the media types decode.Decode has a format for
Decodable == {sJson, sYaml, sAppXml, sTextXml}

\* the Result has no error and a body, so that Into reaches the Content-Type
Populated == pc = "decoded" /\ DoResult.err = NoErr /\ DoResult.body # <<>>

\* the Content-Type parses to a media type decode.Decode has no format for
Unsupported ==
    /\ ParseMediaType(DoResult.contentType)[2]
    /\ ParseMediaType(DoResult.contentType)[1] \notin Decodable

\* C16 as stated: on a Result without error and with a body whose media
\* type is absent or not one of the four decodable ones, Into returns no
\* error and leaves the target unmodified.
C16_Original ==
    (Populated /\ (DoResult.contentType = <<>> \/ Unsupported))
        => intoErr = NoErr /\ target = "untouched"

\* C16 (amended): on a Result without error and with a body, a Content-Type
\* that parses to a media type other than the four decodable ones makes Into
\* return no error and leave the target unmodified; an absent Content-Type
\* makes Into return the "no media type" error of the parse, before any
\* decoding, the target unmodified as well.
C16_UnsupportedNoOp ==
    /\ (Populated /\ Unsupported)
          => intoErr = NoErr /\ target = "untouched" /\ decodeCalls = 1
    /\ (Populated /\ DoResult.contentType = <<>>)
          => /\ intoErr.kind = "mime" /\ intoErr.leaf = "no media type"
             /\ target = "untouched" /\ decodeCalls = 0

C16_Witness ==
    /\ Populated /\ resp.StatusCode = 200
    /\ DoResult.contentType = sTextPlain /\ DoResult.body = <<"x">>
    /\ intoErr = NoErr /\ target = "untouched"

C16_WitnessAbsent ==
    /\ Populated /\ resp.StatusCode = 200
    /\ resp.Header.ContentType = <<>> /\ DoResult.body = <<"{","}">>
    /\ intoErr.leaf = "no media type"

(***************************************************************************)
(* Termination of the retry loop (src/request.go:357-423).                 *)
(***************************************************************************)
\* the positions of Do() inside the loop
LoopPcs == {"send", "evaluate", "drain"}

\* the steps of the loop that are left at most: three per request that may
\* still be sent, plus what is left of the attempt under way
Remaining ==
    IF pc \in LoopPcs
    THEN 3 * (10 - sends) + (CASE pc = "send" -> 0 [] pc = "drain" -> 1
                                  [] pc = "evaluate" -> 2)
    ELSE 0

\* C21: Do() sends at most 10 requests and then returns, whatever the verb,
\* the body and the transport outcomes: inside the loop a step is always
\* possible (each transport call returns; the evaluation has no condition
\* but the seek result it draws) and every step lowers the number of steps
\* left, which is never negative.  The callback runs at most once,
\* exactly once when Do() ends on a response and not at all when it ends on
\* an error.  Attempts are sequential: a request is sent only when every
\* earlier one has been evaluated and its body closed.
C21_BoundedTermination ==
    /\ [](sends <= 10 /\ callbacks <= 1 /\ Remaining >= 0)
    /\ [](pc = "send" => ENABLED Send)
    /\ [](pc = "evaluate" => SeekResults(body) # {})
    /\ [](pc = "drain" => ENABLED DrainClose)
    /\ [][(pc \in LoopPcs) => (Remaining' < Remaining)]_vars
    /\ [](pc = "done" => callbacks = (IF reqErr = NoErr THEN 1 ELSE 0))
    /\ [](pc = "done" /\ reqErr = NoErr => isDone /\ sends = retries /\ sends >= 1)
    /\ [](pc = "send" => sends = retries /\ ~respOpen /\ callbacks = 0)
    /\ [](pc = "evaluate" => sends = retries + 1 /\ callbacks = 0)
    /\ [](pc = "drain" => sends = retries)

\* Do() returned after ten requests, each answered with a retryable
\* response, and the callback ran once, on the tenth
C21_Witness ==
    /\ pc = "done" /\ sends = 10 /\ retries = 10 /\ allWait
    /\ reqErr = NoErr /\ callbacks = 1

\* Do() returned on a transport error after some retries, the callback never
\* having run
C21_WitnessError ==
    /\ pc = "done" /\ sends > 1 /\ reqErr # NoErr /\ callbacks = 0

====
